---- MODULE Spec2Model ----
\* Model of the PygameCommunityBot command layer: the exec command of
\* commands.py (dispatch, source normalisation, sandbox call, rendering of the
\* result, temporary image file) and the text helpers of pgbot/utils.py.
\*
\* Strings are sequences of characters; a character is a one-element TLA+
\* string, except the backtick, written "<BT>", and the invisible marks U+200E
\* and U+200B, written "<LRM>" and "<ZWSP>".
EXTENDS Integers, Sequences, FiniteSets, TLC

VARIABLES
    cmd,      \* the command being dispatched: entry point, args, is_priv
    call,     \* the execSandbox call the dispatch made (kind "none" before it)
    rin,      \* a sandbox result (or a string) about to be rendered
    rout,     \* the rendering of rin (kind "none" before it)
    smsg,     \* a message given to split_long_message
    schunks,  \* what split_long_message returned for smsg
    inv,      \* the exec handler invocations in flight, by invocation number
    clock,    \* the value time.time() returns now
    files,    \* the files on disk: name -> [writer, size]
    mj,       \* one on_member_join invocation: position, polls, greetings
    logs,     \* common.cmd_logs: the entries [key, resp] in insertion order
    nmsg,     \* how many messages on_message has been called for
    inflight, \* ids of the messages whose on_message awaits commands.handle
    om        \* what the last on_message or on_message_delete call did

\* The variables of the exec command and of the text helpers.
execvars == <<cmd, call, rin, rout, smsg, schunks, inv, clock, files>>

\* The variables of the event handlers of main.py.
botvars == <<mj, logs, nmsg, inflight, om>>

vars == <<execvars, botvars>>

\* No member has joined, no message was handled, cmd_logs is empty.
NoJoin ==
    [pc |-> "none", test_mode |-> FALSE, bot |-> FALSE, pending |-> FALSE,
     polls |-> 0, slept |-> 0, greeted |-> 0]

NoOutcome == [kind |-> "none", id |-> 0, bot |-> FALSE, before |-> <<>>]

BotIdle ==
    mj = NoJoin /\ logs = <<>> /\ nmsg = 0 /\ inflight = {} /\ om = NoOutcome

\* ------------------------------------------------------------ characters

SP == " "
BT == "<BT>"
NL == "\n"
LRM == "<LRM>"
ZWSP == "<ZWSP>"

\* ---------------------------------------------------------------- bounds

MaxBodyLen == 3
MaxExtraArgs == 2

\* ------------------------------------------------------- string helpers

\* A slice bound of Python on a string of length n: a negative bound counts
\* from the end, and every bound is clipped to 0..n.
SliceBound(k, n) ==
    IF k < 0 THEN (IF n + k < 0 THEN 0 ELSE n + k)
    ELSE IF k > n THEN n ELSE k

\* s[a:b] of Python.
Slice(s, a, b) == SubSeq(s, SliceBound(a, Len(s)) + 1, SliceBound(b, Len(s)))

\* s[a:] of Python.
SliceFrom(s, a) == SubSeq(s, a + 1, Len(s))

\* s.startswith(p)
StartsWith(s, p) == Len(s) >= Len(p) /\ SubSeq(s, 1, Len(p)) = p

\* n copies of character c.
Fill(c, n) == [i \in 1..n |-> c]

\* All strings over alphabet A of length at most n.
Strs(A, n) == UNION {[1..k -> A] : k \in 0..n}

\* ------------------------------------------- exec: source normalisation

\* The characters the two stripping loops of the exec branch skip.
StripChars == {SP, BT, NL}

PyTag == <<"p", "y", NL>>

\* First loop (commands.py 143-147): x runs over range(len(code)); ret is
\* reassigned while code[x] is a strip character, the loop breaks at the
\* first other character. ret is '' when the loop breaks at x = 0.
RECURSIVE LeadLoop(_, _, _)
LeadLoop(code, x, ret) ==
    IF x >= Len(code) THEN ret
    ELSE IF code[x + 1] \in StripChars
         THEN LeadLoop(code, x + 1, SliceFrom(code, x + 1))
         ELSE ret

\* Second loop (commands.py 150-154): x runs over reversed(range(len(code))).
RECURSIVE TrailLoop(_, _, _)
TrailLoop(code, x, ret) ==
    IF x < 0 THEN ret
    ELSE IF code[x + 1] \in StripChars
         THEN TrailLoop(code, x - 1, Slice(code, 0, x))
         ELSE ret

AsNormalizeKeepTag(body) ==
    LET code == LeadLoop(body, 0, <<>>)
    IN  TrailLoop(code, Len(code) - 1, code)

\* commands.py 140-157: the text handed to execSandbox for a command body.
NormalizeExec(body) ==
    LET code == LeadLoop(body, 0, <<>>)
        ret  == TrailLoop(code, Len(code) - 1, code)
    IN  IF StartsWith(ret, PyTag) THEN SliceFrom(ret, 3) ELSE ret

\* ------------------------------------------------------ exec: dispatch

PrivBudget == 5
UserBudget == 2

AsBudgetSwapped(is_priv) == IF is_priv THEN UserBudget ELSE PrivBudget

\* commands.py 160: 5 if is_priv else 2
Budget(is_priv) == IF is_priv THEN PrivBudget ELSE UserBudget

\* util.safeSub(l, i): l[i], or '' when i is out of range.
safeSub(l, i) == IF i + 1 \in DOMAIN l THEN l[i + 1] ELSE ""

\* The branch of admin_command that handles args, "user" when it falls
\* through to user_command (commands.py 50-86).
AdminBranch(args) ==
    IF safeSub(args, 0) = "eval" /\ Len(args) > 1 THEN "eval"
    ELSE IF safeSub(args, 0) = "sudo" /\ Len(args) > 1 THEN "sudo"
    ELSE IF safeSub(args, 0) = "heap" /\ Len(args) = 1 THEN "heap"
    ELSE IF safeSub(args, 0) = "stop" /\ Len(args) = 1 THEN "stop"
    ELSE "user"

\* The branch of user_command that handles args (commands.py 92-200).
UserBranch(args) ==
    IF safeSub(args, 0) = "doc" /\ Len(args) = 2 THEN "doc"
    ELSE IF safeSub(args, 0) = "exec" /\ Len(args) > 1 THEN "exec"
    ELSE IF safeSub(args, 0) = "pet" /\ Len(args) = 1 THEN "pet"
    ELSE IF safeSub(args, 0) = "vibecheck" /\ Len(args) = 1 THEN "vibecheck"
    ELSE "none"

\* The body of the C1 example: two spaces, fence, py, newline, print(1),
\* newline, fence, two spaces.
FenceExample ==
    <<SP, SP, BT, BT, BT, "p", "y", NL,
      "p", "r", "i", "n", "t", "(", "1", ")", NL, BT, BT, BT, SP, SP>>

BodyAlphabet == {SP, BT, NL, "p", "y"}

\* msg.content[len(prefix) + 5:] of the commands the model dispatches.
Bodies == Strs(BodyAlphabet, MaxBodyLen) \cup {FenceExample}

CmdNames == {"eval", "sudo", "heap", "stop", "doc", "exec", "pet",
             "vibecheck", "other"}

ArgLists ==
    {<<>>} \cup {<<c>> \o Fill("w", k) : c \in CmdNames, k \in 0..MaxExtraArgs}

NoCmd == [entry |-> "none", args |-> <<>>, is_priv |-> FALSE]

\* A dispatch outcome: the branch taken and, for the exec branch, the body
\* read from msg.content, the source text and the budget given to execSandbox.
NoCall == [kind |-> "none", body |-> <<>>, src |-> <<>>, budget |-> 0]

\* What a command that reaches user_command with these flags does
\* (commands.py 89-202): the execSandbox call of the exec branch, or another
\* branch that calls no sandbox.
UserCommand(args, body, is_priv) ==
    IF UserBranch(args) = "exec"
    THEN [kind |-> "exec", body |-> body, src |-> NormalizeExec(body),
          budget |-> Budget(is_priv)]
    ELSE [kind |-> UserBranch(args), body |-> <<>>, src |-> <<>>, budget |-> 0]

\* admin_command(msg, args, prefix) (commands.py 49-86).
AdminCommand(body) ==
    /\ cmd.entry = "admin_command"
    /\ call.kind = "none"
    /\ call' = IF AdminBranch(cmd.args) = "user"
               THEN UserCommand(cmd.args, body, TRUE)
               ELSE [kind |-> AdminBranch(cmd.args), body |-> <<>>,
                     src |-> <<>>, budget |-> 0]
    /\ UNCHANGED <<cmd, rin, rout, smsg, schunks, inv, clock, files, botvars>>

\* user_command(msg, args, prefix, is_priv) called directly (commands.py 89).
UserCommandDirect(body) ==
    /\ cmd.entry = "user_command"
    /\ call.kind = "none"
    /\ call' = UserCommand(cmd.args, body, cmd.is_priv)
    /\ UNCHANGED <<cmd, rin, rout, smsg, schunks, inv, clock, files, botvars>>

InitDispatch ==
    /\ cmd \in ([entry : {"admin_command"}, args : ArgLists, is_priv : {TRUE}]
                \cup [entry : {"user_command"}, args : ArgLists,
                      is_priv : BOOLEAN])
    /\ call = NoCall
    /\ rin = [kind |-> "none", text |-> <<>>, name |-> <<>>, args |-> <<>>]
    /\ rout = [kind |-> "none", title |-> "", escaped |-> <<>>, desc |-> <<>>]
    /\ smsg = <<>>
    /\ schunks = <<>>
    /\ inv = <<>>
    /\ clock = 0
    /\ files = <<>>
    /\ BotIdle

NextDispatch ==
    \E body \in Bodies : AdminCommand(body) \/ UserCommandDirect(body)

SpecDispatch == InitDispatch /\ [][NextDispatch]_vars

\* --------------------------------------------------- rendering a result

\* str.replace("```", repl): the leftmost occurrences, not overlapping.
FenceAt(s, i) == s[i] = BT /\ s[i + 1] = BT /\ s[i + 2] = BT

AsReplaceFenceNone(s, repl) == s

RECURSIVE ReplaceFence(_, _)
ReplaceFence(s, repl) ==
    LET M == {i \in 1..(Len(s) - 2) : FenceAt(s, i)}
    IN  IF M = {} THEN s
        ELSE LET i == CHOOSE m \in M : \A j \in M : m <= j
             IN  SubSeq(s, 1, i - 1) \o repl
                 \o ReplaceFence(SubSeq(s, i + 3, Len(s)), repl)

\* sep.join(parts)
RECURSIVE Join(_, _)
Join(parts, sep) ==
    IF parts = <<>> THEN <<>>
    ELSE IF Len(parts) = 1 THEN parts[1]
    ELSE parts[1] \o sep \o Join(Tail(parts), sep)

\* The replacement texts of commands.py 171 and 181 and of utils.py 409.
ExecTextRepl == <<LRM, LRM, BT, LRM, BT, LRM, LRM, BT, LRM, LRM, LRM>>
ExecExcRepl == <<LRM, LRM, BT, LRM, BT, LRM, BT, LRM>>
CodeBlockRepl == <<ZWSP, BT, ZWSP, BT, ZWSP, BT, ZWSP>>

FenceOpen == <<BT, BT, BT, NL>>
FenceClose == <<BT, BT, BT>>
Dots == <<SP, ".", ".", ".">>

DescLimit == 2048
FenceCost == 7
ExecCut == 2038

\* commands.py 171-173: the text of a successful result, escaped.
ExecTextEscaped(text) ==
    LET str_repr == ReplaceFence(text, ExecTextRepl)
    IN  IF str_repr = <<>> THEN <<SP>> ELSE str_repr

\* commands.py 181: exception name, ': ', the arguments joined by ', '.
ExecExcEscaped(name, args) ==
    ReplaceFence(name, ExecExcRepl) \o <<":", SP>>
        \o ReplaceFence(Join(args, <<",", SP>>), ExecExcRepl)

\* commands.py 175-178 and 183-186: the embed description for escaped text s.
ExecDescription(s) ==
    IF Len(s) + FenceCost > DescLimit
    THEN FenceOpen \o Slice(s, 0, ExecCut) \o Dots \o FenceClose
    ELSE FenceOpen \o s \o FenceClose

CodeBlockMax == 2048
CodeBlockCost == 7

\* utils.py 409: the string of code_block after its replace.
CodeBlockEscaped(string) == ReplaceFence(string, CodeBlockRepl)

\* code_block without its length test: the escaped string is never cut.
AsCodeBlockNoTrunc(string, max_characters) ==
    FenceOpen \o CodeBlockEscaped(string) \o FenceClose

\* utils.py 405-415: code_block(string, max_characters).
code_block(string, max_characters) ==
    LET str == CodeBlockEscaped(string)
        mx  == max_characters - CodeBlockCost
    IN  IF Len(str) > mx
        THEN FenceOpen \o Slice(str, 0, mx - CodeBlockCost) \o Dots \o FenceClose
        ELSE FenceOpen \o Slice(str, 0, mx) \o FenceClose

\* Bounds of the rendered inputs.
MaxTicks == 4
MaxShort == 3
Window == 5

Ticks(n) == Fill(BT, n)

\* Long strings: a run of backticks, filler, a run of backticks, with the
\* filler length around the truncation threshold and the cut position.
FillLens == (ExecCut - Window)..(DescLimit - FenceCost + 1)

LongStrs ==
    {Ticks(i) \o Fill("a", n) \o Ticks(j) :
        i \in 0..MaxTicks, n \in FillLens, j \in 0..MaxTicks}

ShortStrs == Strs({BT, "a"}, MaxShort)

TextInputs == LongStrs \cup ShortStrs

\* Strings that themselves end with " ...", short and around the threshold.
DotStrs ==
    {Fill("a", n) \o Dots : n \in 0..MaxShort}
        \cup {Fill("a", n - Len(Dots)) \o Dots : n \in FillLens}

\* The strings handed to code_block.
StringInputs == TextInputs \cup DotStrs

ExcNames == {Ticks(k) \o <<"E">> : k \in 0..MaxTicks}

\* Argument lists of an exception: none, one argument, or two of which the
\* first is long.
ExcArgLists ==
    {<<>>} \cup {<<a>> : a \in ShortStrs}
           \cup {<<Fill("a", n) \o Ticks(j)>> : n \in FillLens, j \in 0..MaxTicks}
           \cup {<<Fill("a", n), Ticks(j)>> : n \in FillLens, j \in 0..MaxTicks}

NoRender == [kind |-> "none", title |-> "", escaped |-> <<>>, desc |-> <<>>]

\* The success branch of the exec handler renders returned.text
\* (commands.py 171-178).
RenderText ==
    /\ rin.kind = "text"
    /\ rout.kind = "none"
    /\ rout' = [kind |-> "text", title |-> "Returned text",
                escaped |-> ExecTextEscaped(rin.text),
                desc |-> ExecDescription(ExecTextEscaped(rin.text))]
    /\ UNCHANGED <<cmd, call, rin, smsg, schunks, inv, clock, files, botvars>>

\* The exception branch of the exec handler renders returned.exc
\* (commands.py 180-186).
RenderExc ==
    /\ rin.kind = "exc"
    /\ rout.kind = "none"
    /\ rout' = [kind |-> "exc", title |-> "An exception occured!",
                escaped |-> ExecExcEscaped(rin.name, rin.args),
                desc |-> ExecDescription(ExecExcEscaped(rin.name, rin.args))]
    /\ UNCHANGED <<cmd, call, rin, smsg, schunks, inv, clock, files, botvars>>

\* code_block(string) with the default max_characters (utils.py 405-415).
CodeBlock ==
    /\ rin.kind = "string"
    /\ rout.kind = "none"
    /\ rout' = [kind |-> "code_block", title |-> "",
                escaped |-> CodeBlockEscaped(rin.text),
                desc |-> code_block(rin.text, CodeBlockMax)]
    /\ UNCHANGED <<cmd, call, rin, smsg, schunks, inv, clock, files, botvars>>

InitRender ==
    /\ rin \in [kind : {"text"}, text : TextInputs,
                name : {<<>>}, args : {<<>>}]
               \cup [kind : {"string"}, text : StringInputs,
                     name : {<<>>}, args : {<<>>}]
               \cup [kind : {"exc"}, text : {<<>>},
                     name : ExcNames, args : ExcArgLists]
    /\ rout = NoRender
    /\ cmd = NoCmd
    /\ call = NoCall
    /\ smsg = <<>>
    /\ schunks = <<>>
    /\ inv = <<>>
    /\ clock = 0
    /\ files = <<>>
    /\ BotIdle

NextRender == RenderText \/ RenderExc \/ CodeBlock

SpecRender == InitRender /\ [][NextRender]_vars

\* --------------------------------------------------- split_long_message

SplitLimit == 2000

\* message.split("\n"): the pieces between the newlines, at least one.
RECURSIVE SplitLines(_)
SplitLines(s) ==
    LET N == {i \in 1..Len(s) : s[i] = NL}
    IN  IF N = {} THEN <<s>>
        ELSE LET i == CHOOSE m \in N : \A j \in N : m <= j
             IN  <<SubSeq(s, 1, i - 1)>> \o SplitLines(SubSeq(s, i + 1, Len(s)))

\* s[:-1] of Python.
DropLast(s) == SubSeq(s, 1, Len(s) - 1)

\* The loop of utils.py 151-156 from line k on, then lines 158-161.
RECURSIVE SplitLoop(_, _, _, _)
SplitLoop(lines, k, split_output, temp) ==
    IF k > Len(lines)
    THEN IF temp # <<>> THEN Append(split_output, temp) ELSE split_output
    ELSE IF Len(temp) + Len(lines[k]) + 1 > SplitLimit
         THEN SplitLoop(lines, k + 1, Append(split_output, DropLast(temp)),
                        lines[k] \o <<NL>>)
         ELSE SplitLoop(lines, k + 1, split_output, temp \o lines[k] \o <<NL>>)

\* utils.py 143-161 (and the same function in util.py 44-62).
split_long_message(message) == SplitLoop(SplitLines(message), 1, <<>>, <<>>)

MaxLines == 3

\* Line lengths: empty and short lines, two halves of the limit, and lines
\* around the limit.
LineLens ==
    {0, 1, SplitLimit \div 2 - 1, SplitLimit \div 2}
        \cup ((SplitLimit - 2)..(SplitLimit + 1))

Messages ==
    {Join([i \in DOMAIN ls |-> Fill("a", ls[i])], <<NL>>) :
        ls \in UNION {[1..k -> LineLens] : k \in 1..MaxLines}}

\* One call of split_long_message on the message.
SplitMessage ==
    /\ schunks = <<"pending">>
    /\ schunks' = split_long_message(smsg)
    /\ UNCHANGED <<cmd, call, rin, rout, smsg, inv, clock, files, botvars>>

InitSplit ==
    /\ smsg \in Messages
    /\ schunks = <<"pending">>
    /\ cmd = NoCmd
    /\ call = NoCall
    /\ rin = [kind |-> "none", text |-> <<>>, name |-> <<>>, args |-> <<>>]
    /\ rout = NoRender
    /\ inv = <<>>
    /\ clock = 0
    /\ files = <<>>
    /\ BotIdle

NextSplit == SplitMessage

SpecSplit == InitSplit /\ [][NextSplit]_vars

\* ------------------------------------------- the exec handler, in flight

\* Bounds of the handler model: invocations in flight and clock readings.
NInv == 2
MaxClock == 1

\* commands.py 166: 2**22
ImgLimit == 4194304

Invs == 1..NInv
Names == 0..MaxClock

\* Bodies and results the handler model draws from.
HandlerBodies == {FenceExample, <<"p">>}

OkTexts == {<<>>, <<"1", NL>>}

ImgSizes == {ImgLimit - 1, ImgLimit, ImgLimit + 1}

\* The args of the exception the handler model draws: one argument, 'x'.
ExcOneArg == << <<"x">> >>

\* A SandboxResult: exc set or not, the exception's name and args, the text,
\* and the size the image takes once saved (0: img is no pygame.Surface).
Results ==
    [exc : {TRUE}, name : {<<"E">>}, args : {ExcOneArg},
     text : {<<>>}, img : {0, ImgLimit - 1}]
    \cup [exc : {FALSE}, name : {<<>>}, args : {<<>>},
          text : OkTexts, img : {0} \cup ImgSizes]

NoResult == [exc |-> FALSE, name |-> <<>>, args |-> <<>>, text |-> <<>>, img |-> 0]

\* No file of that name on disk.
NoFile == [writer |-> 0, size |-> 0]

IdleInv ==
    [pc |-> "idle", is_priv |-> FALSE, src |-> <<>>, budget |-> 0, start |-> 0,
     res |-> NoResult, desc |-> <<>>, sent |-> {}, send_failed |-> FALSE,
     clobbered |-> FALSE]

\* commands.py 139-160, up to the await of execSandbox: the body is
\* normalized, start = time.time() is read and the sandbox is called.
ExecStart(i, body, is_priv) ==
    /\ inv[i].pc = "idle"
    /\ inv' = [inv EXCEPT ![i] =
                 [@ EXCEPT !.pc = "sandbox", !.is_priv = is_priv,
                           !.src = NormalizeExec(body),
                           !.budget = Budget(is_priv), !.start = clock]]
    /\ UNCHANGED <<cmd, call, rin, rout, smsg, schunks, clock, files, botvars>>

\* commands.py 161-186 from the return of execSandbox to the next await.
\* An exception result goes to the 'An exception occured!' embed. A result
\* with an image saves temp{start}.png, then sends the file when it is smaller
\* than 2**22 bytes and the notice otherwise. A result with no image goes to
\* the 'Returned text' embed.
SandboxReturn(i, res) ==
    /\ inv[i].pc = "sandbox"
    /\ LET name == inv[i].start
           save == ~res.exc /\ res.img # 0
       IN  /\ inv' = [inv EXCEPT ![i] =
                        [@ EXCEPT
                           !.res = res,
                           !.pc = IF res.exc THEN "sendexc"
                                  ELSE IF res.img = 0 THEN "sendtext"
                                  ELSE IF res.img < ImgLimit THEN "sendfile"
                                  ELSE "sendnotice",
                           !.desc = IF res.exc
                                    THEN ExecDescription(
                                             ExecExcEscaped(res.name, res.args))
                                    ELSE IF res.img = 0
                                    THEN ExecDescription(ExecTextEscaped(res.text))
                                    ELSE <<>>,
                           !.clobbered = save /\ files[name].writer \notin {0, i}]]
           /\ files' = IF save
                       THEN [files EXCEPT ![name] = [writer |-> i, size |-> res.img]]
                       ELSE files
    /\ UNCHANGED <<cmd, call, rin, rout, smsg, schunks, clock, botvars>>

\* commands.py 167-178: the await of channel.send(file=...) or of the notice
\* returns; os.remove(temp{start}.png) runs, raising when no such file is
\* left; then the text is escaped and the 'Returned text' embed is sent.
ImageSent(i) ==
    /\ inv[i].pc \in {"sendfile", "sendnotice"}
    /\ LET name == inv[i].start
           gone == files[name] = NoFile
       IN  /\ inv' = [inv EXCEPT ![i] =
                        [@ EXCEPT
                           !.sent = @ \cup {IF inv[i].pc = "sendfile"
                                            THEN "file" ELSE "notice"},
                           !.pc = IF gone THEN "raised" ELSE "sendtext",
                           !.desc = IF gone THEN <<>>
                                    ELSE ExecDescription(
                                             ExecTextEscaped(inv[i].res.text)),
                           !.clobbered = @ \/ (~gone /\ files[name].writer # i)]]
           /\ files' = [files EXCEPT ![name] = NoFile]
    /\ UNCHANGED <<cmd, call, rin, rout, smsg, schunks, clock, botvars>>

\* commands.py 176-178 and 184-186: the await of sendEmbed returns and the
\* handler ends.
EmbedSent(i) ==
    /\ inv[i].pc \in {"sendtext", "sendexc"}
    /\ inv' = [inv EXCEPT ![i] =
                 [@ EXCEPT !.sent = @ \cup {IF inv[i].pc = "sendtext"
                                            THEN "text" ELSE "exc"},
                           !.pc = "done"]]
    /\ UNCHANGED <<cmd, call, rin, rout, smsg, schunks, clock, files, botvars>>

\* An awaited channel.send or sendEmbed raises (discord.HTTPException): the
\* exception leaves user_command, nothing after the await runs.
SendFails(i) ==
    /\ inv[i].pc \in {"sendfile", "sendnotice", "sendtext", "sendexc"}
    /\ inv' = [inv EXCEPT ![i] = [@ EXCEPT !.pc = "raised", !.send_failed = TRUE]]
    /\ UNCHANGED <<cmd, call, rin, rout, smsg, schunks, clock, files, botvars>>

\* time.time() moves on between two readings, or does not.
Tick ==
    /\ clock < MaxClock
    /\ clock' = clock + 1
    /\ UNCHANGED <<cmd, call, rin, rout, smsg, schunks, inv, files, botvars>>

Init ==
    /\ inv = [i \in Invs |-> IdleInv]
    /\ clock = 0
    /\ files = [n \in Names |-> NoFile]
    /\ cmd = NoCmd
    /\ call = NoCall
    /\ rin = [kind |-> "none", text |-> <<>>, name |-> <<>>, args |-> <<>>]
    /\ rout = NoRender
    /\ smsg = <<>>
    /\ schunks = <<>>
    /\ BotIdle

Next ==
    \/ \E i \in Invs, body \in HandlerBodies, is_priv \in BOOLEAN :
          ExecStart(i, body, is_priv)
    \/ \E i \in Invs, res \in Results : SandboxReturn(i, res)
    \/ \E i \in Invs : ImageSent(i)
    \/ \E i \in Invs : EmbedSent(i)
    \/ \E i \in Invs : SendFails(i)
    \/ Tick

Spec == Init /\ [][Next]_vars

\* ------------------------------------------------- main.py: event handlers

\* No exec command, rendering or split is under way.
ExecIdle ==
    /\ cmd = NoCmd
    /\ call = NoCall
    /\ rin = [kind |-> "none", text |-> <<>>, name |-> <<>>, args |-> <<>>]
    /\ rout = NoRender
    /\ smsg = <<>>
    /\ schunks = <<>>
    /\ inv = <<>>
    /\ clock = 0
    /\ files = <<>>

\* ---------------------------------------------------------- on_member_join

\* main.py 71: for _ in range(10800).
MaxPolls == 10800

\* main.py 72: await asyncio.sleep(2).
SleepSecs == 2

\* The greeting is sent whatever member.pending says.
AsGreetAlways(pending) == TRUE

\* main.py 74: if not member.pending.
ShouldGreet(pending) == ~pending

\* main.py 58-59: TEST_MODE or a bot member: return at once.
JoinReturnEarly ==
    /\ mj.pc = "start"
    /\ mj.test_mode \/ mj.bot
    /\ mj' = [mj EXCEPT !.pc = "done"]
    /\ UNCHANGED <<execvars, logs, nmsg, inflight, om>>

\* main.py 58-71: otherwise the words of the greeting are chosen and the
\* loop is entered.
JoinEnter ==
    /\ mj.pc = "start"
    /\ ~(mj.test_mode \/ mj.bot)
    /\ mj' = [mj EXCEPT !.pc = "loop"]
    /\ UNCHANGED <<execvars, logs, nmsg, inflight, om>>

\* main.py 71-81: one iteration: sleep, read member.pending, and either call
\* arrivals_channel.send and return, or go round again; range(10800) being
\* exhausted ends the function.
JoinPoll ==
    /\ mj.pc = "loop"
    /\ mj.polls < MaxPolls
    /\ mj' = [mj EXCEPT
                !.polls = @ + 1,
                !.slept = @ + SleepSecs,
                !.greeted = IF ShouldGreet(mj.pending) THEN @ + 1 ELSE @,
                !.pc = IF ShouldGreet(mj.pending) \/ mj.polls + 1 = MaxPolls
                       THEN "done" ELSE "loop"]
    /\ UNCHANGED <<execvars, logs, nmsg, inflight, om>>

\* The member passes the screening while the handler sleeps (member.pending
\* is read afresh at main.py 74).
ScreeningPassed ==
    /\ mj.pc \in {"start", "loop"}
    /\ mj.pending
    /\ mj' = [mj EXCEPT !.pending = FALSE]
    /\ UNCHANGED <<execvars, logs, nmsg, inflight, om>>

JoinStep == JoinReturnEarly \/ JoinEnter \/ JoinPoll

InitJoin ==
    /\ mj \in [pc : {"start"}, test_mode : BOOLEAN, bot : BOOLEAN,
               pending : BOOLEAN, polls : {0}, slept : {0}, greeted : {0}]
    /\ logs = <<>>
    /\ nmsg = 0
    /\ inflight = {}
    /\ om = NoOutcome
    /\ ExecIdle

NextJoin == JoinReturnEarly \/ JoinEnter \/ JoinPoll \/ ScreeningPassed

\* The event loop resumes the coroutine after every sleep.
SpecJoin == InitJoin /\ [][NextJoin]_vars /\ WF_vars(JoinStep)

\* --------------------------------------- on_message and on_message_delete

\* main.py 95: if len(common.cmd_logs) > 100.
LogLimit == 100

\* Bounds: the messages of a short run with deletions; in a long run, the
\* irregular events (a message that leaves no entry, an entry stored out of
\* arrival order while another call was in flight), and how many arrivals a
\* call of commands.handle may stay behind.
MaxMsgs == 3
MaxSkips == 1
MaxLag == 1

\* A long run goes past the limit of cmd_logs.
MaxLogMsgs == LogLimit + MaxSkips + 2

\* In a short run no limit on irregular events binds.
NoLimit == 3 * MaxMsgs

\* The k-th message on_message is called for, and the response that
\* commands.handle sends to it (a new message, so a new id).
MsgId(k) == 2 * k - 1
RespId(k) == 2 * k

\* Ids of the bot's own messages: its responses.
IsBotId(id) == id % 2 = 0

HasKey(l, id) == \E i \in 1..Len(l) : l[i].key = id

\* main.py 94: common.cmd_logs[msg.id] = response, on a dict: the value of
\* an existing key is replaced in place, a new key goes last.
PutLog(l, id, resp) ==
    IF HasKey(l, id)
    THEN [i \in 1..Len(l) |->
             IF l[i].key = id THEN [key |-> id, resp |-> resp] ELSE l[i]]
    ELSE Append(l, [key |-> id, resp |-> resp])

\* main.py 96: common.cmd_logs.keys()[0]. cmd_logs is a dict and this is
\* Python 3 (async def, f-strings): keys() is a view without indexing, so
\* the expression raises TypeError before del runs.
KeysIndexRaises == TRUE

\* main.py 89-98: what on_message does to cmd_logs for a message of a user:
\* the dict afterwards and how the handler ended.
on_message(l, id, resp, http_fails) ==
    IF http_fails
    THEN [logs |-> l, kind |-> "http_caught"]
    ELSE LET put == PutLog(l, id, resp)
         IN  IF Len(put) > LogLimit
             THEN IF KeysIndexRaises
                  THEN [logs |-> put, kind |-> "raised"]
                  ELSE [logs |-> Tail(put), kind |-> "evicted"]
             ELSE [logs |-> put, kind |-> "logged"]

\* on_message_delete without its elif branch.
AsDeleteKeyOnly(l, id, is_bot) ==
    LET NotKey(e) == e.key # id
    IN  SelectSeq(l, NotKey)

\* main.py 140-147: on_message_delete on cmd_logs.
on_message_delete(l, id, is_bot) ==
    LET NotKey(e) == e.key # id
        hits == {i \in 1..Len(l) : l[i].resp = id}
    IN  IF HasKey(l, id)
        THEN SelectSeq(l, NotKey)
        ELSE IF is_bot /\ hits # {}
             THEN LET i == CHOOSE h \in hits : \A g \in hits : h <= g
                  IN  SubSeq(l, 1, i - 1) \o SubSeq(l, i + 1, Len(l))
             ELSE l

\* Entries stored before an entry of an earlier message.
Inversions(l) ==
    Cardinality({i \in 1..(Len(l) - 1) : l[i].key > l[i + 1].key})

\* The irregular events of a run so far: messages that are neither in
\* cmd_logs nor in flight, and entries out of arrival order.
Irregular == (nmsg - Len(logs) - Cardinality(inflight)) + Inversions(logs)

\* main.py 89-90, 99: a message of a bot, or one without the prefix, never
\* reaches cmd_logs.
OnMessageOther(max, slack, is_bot) ==
    /\ nmsg < max
    /\ Irregular < slack
    /\ nmsg' = nmsg + 1
    /\ om' = [kind |-> IF is_bot THEN "ignored" ELSE "not_command",
              id |-> MsgId(nmsg + 1), bot |-> is_bot, before |-> logs]
    /\ UNCHANGED <<execvars, mj, logs, inflight>>

\* main.py 89-94: a prefixed message of a user arrives and on_message
\* awaits commands.handle(msg); other handlers run meanwhile.
OnMessageAwait(max, slack, lag) ==
    /\ nmsg < max
    /\ \A id \in inflight : id >= MsgId(nmsg + 1 - lag)
    /\ inflight # {} => Irregular < slack
    /\ nmsg' = nmsg + 1
    /\ inflight' = inflight \cup {MsgId(nmsg + 1)}
    /\ UNCHANGED <<execvars, mj, logs, om>>

\* main.py 94-98: commands.handle returns the response, or raises
\* discord.HTTPException, and on_message runs to its end.
HandleReturns(id, slack, http_fails) ==
    /\ id \in inflight
    /\ http_fails => Irregular < slack
    /\ LET r == on_message(logs, id, id + 1, http_fails)
       IN  /\ logs' = r.logs
           /\ om' = [kind |-> r.kind, id |-> id, bot |-> FALSE,
                     before |-> logs]
    /\ inflight' = inflight \ {id}
    /\ UNCHANGED <<execvars, mj, nmsg>>

\* main.py 135-147: any message sent so far is deleted.
OnMessageDelete(id) ==
    /\ logs' = on_message_delete(logs, id, IsBotId(id))
    /\ om' = [kind |-> "deleted", id |-> id, bot |-> IsBotId(id),
              before |-> logs]
    /\ UNCHANGED <<execvars, mj, nmsg, inflight>>

InitLogs ==
    /\ logs = <<>>
    /\ nmsg = 0
    /\ inflight = {}
    /\ om = NoOutcome
    /\ mj = NoJoin
    /\ ExecIdle

\* A long run of messages.
NextLogs ==
    \/ \E b \in BOOLEAN : OnMessageOther(MaxLogMsgs, MaxSkips, b)
    \/ OnMessageAwait(MaxLogMsgs, MaxSkips, MaxLag)
    \/ \E id \in inflight, f \in BOOLEAN : HandleReturns(id, MaxSkips, f)

SpecLogs == InitLogs /\ [][NextLogs]_vars

\* A few messages, and deletions of them and of the responses to them, also
\* while on_message awaits commands.handle.
NextDelete ==
    \/ \E b \in BOOLEAN : OnMessageOther(MaxMsgs, NoLimit, b)
    \/ OnMessageAwait(MaxMsgs, NoLimit, MaxMsgs)
    \/ \E id \in inflight, f \in BOOLEAN : HandleReturns(id, NoLimit, f)
    \/ \E id \in 1..RespId(nmsg) : OnMessageDelete(id)

SpecDelete == InitLogs /\ [][NextDelete]_vars

\* -------------------------------------------- claims on the exec handler

\* The handler invocation has returned or raised.
Ended(i) == inv[i].pc \in {"done", "raised"}

\* The invocation has saved its image file and has not reached os.remove.
HoldsFile(i) == inv[i].pc \in {"sendfile", "sendnotice"}

\* C5: when a successful result carries an image whose saved file exceeds
\* 2**22 bytes, the file is never sent; the handler sends the 'Image cannot be
\* sent' notice, sends no 'An exception occured!' embed and goes on to send
\* the 'Returned text' embed (no channel send having failed).
C5_TooLargeIsNotAnError ==
    \A i \in Invs :
        (~inv[i].res.exc /\ inv[i].res.img > ImgLimit) =>
            /\ "file" \notin inv[i].sent
            /\ "exc" \notin inv[i].sent
            /\ (Ended(i) /\ ~inv[i].send_failed) =>
                   {"notice", "text"} \subseteq inv[i].sent

\* C6: every temporary image file an invocation wrote is removed by the time
\* the invocation ends, on every exit path, a failing send included.
C6_TempFileRemoved ==
    \A i \in Invs :
        Ended(i) => \A n \in Names : files[n].writer # i

\* C7: no two invocations in flight use the same temporary file name, and no
\* invocation overwrites or removes an image file another invocation wrote.
C7_NoSharedArtifact ==
    /\ \A i, j \in Invs :
          (i # j /\ HoldsFile(i) /\ HoldsFile(j)) => inv[i].start # inv[j].start
    /\ \A i \in Invs : ~inv[i].clobbered

\* C8: for every result, channel sends succeeding, the handler renders exactly
\* one of the 'Returned text' and the 'An exception occured!' embeds, and an
\* image file or the too-large notice only in the 'Returned text' case.
C8_ExactlyOneEmbed ==
    \A i \in Invs :
        /\ ({"file", "notice"} \cap inv[i].sent # {}) => ~inv[i].res.exc
        /\ ~({"text", "exc"} \subseteq inv[i].sent)
        /\ (Ended(i) /\ ~inv[i].send_failed) =>
               /\ inv[i].res.exc => "exc" \in inv[i].sent
               /\ ~inv[i].res.exc => "text" \in inv[i].sent

\* ------------------------------------------------ claims on the rendering

\* What a description holds between its opening and its closing fence.
Content(desc) == SubSeq(desc, Len(FenceOpen) + 1, Len(desc) - Len(FenceClose))

NoFenceIn(s) == \A i \in 1..(Len(s) - 2) : ~FenceAt(s, i)

\* C3: the embed description the exec handler sends for a result (opening
\* fence, content, the ' ...' marker, closing fence) is at most 2048
\* characters long.
C3_DescriptionWithinLimit ==
    rout.kind \in {"text", "exc"} => Len(rout.desc) <= DescLimit

\* C4: the content between the opening and the closing fence of what the exec
\* handler renders for a text or an exception, and of what code_block returns,
\* holds no three consecutive backticks, before and after truncation.
C4_NoFenceInContent ==
    rout.kind # "none" =>
        /\ NoFenceIn(rout.escaped)
        /\ NoFenceIn(Content(rout.desc))

\* C4 witness: a text holding a fence was rendered and truncated.
C4_Witness ==
    /\ rout.kind = "text"
    /\ ~NoFenceIn(rin.text)
    /\ Len(rout.escaped) + FenceCost > DescLimit
    /\ Len(Content(rout.desc)) < Len(rout.escaped)

\* ------------------------------------------------- claims on the dispatch

PrintOne == <<"p", "r", "i", "n", "t", "(", "1", ")">>

\* C1 (as amended): the exec branch hands execSandbox the text print(1),
\* with no trailing newline, for the fenced body of FenceExample: the second
\* loop strips the newline before the closing fence with the fence.
C1_FenceExampleStripped ==
    (call.kind = "exec" /\ call.body = FenceExample) => call.src = PrintOne

\* C1 witness: the exec branch has run on the fenced example body.
C1_Witness == call.kind = "exec" /\ call.body = FenceExample

\* C1 (original): the fenced example body is normalized to print(1) followed
\* by a newline, and that text is passed to execSandbox.
C1_Original ==
    (call.kind = "exec" /\ call.body = FenceExample)
        => call.src = PrintOne \o <<NL>>

\* C2: for every body whose first character is not a space, backtick or
\* newline, the text passed to execSandbox is the body less at most its
\* trailing run of such characters; a non-empty unwrapped body keeps its code.
C2_UnwrappedBodyKept ==
    (call.kind = "exec" /\ call.body # <<>> /\ call.body[1] \notin StripChars)
        => /\ call.src # <<>>
           /\ \E k \in 1..Len(call.body) :
                /\ call.src = SubSeq(call.body, 1, k)
                /\ \A j \in (k + 1)..Len(call.body) : call.body[j] \in StripChars

\* C9: every execSandbox call carries a budget greater than zero from two
\* tiers: the longer one (5) exactly when the command came through
\* admin_command or with is_priv true, the shorter one (2) otherwise.
C9_BudgetTiers ==
    call.kind = "exec" =>
        /\ call.budget > 0
        /\ UserBudget < PrivBudget
        /\ (cmd.entry = "admin_command" \/ cmd.is_priv) => call.budget = PrivBudget
        /\ ~(cmd.entry = "admin_command" \/ cmd.is_priv) => call.budget = UserBudget

\* C9 witness: an exec command that came through admin_command reached the
\* sandbox with the longer budget.
C9_Witness ==
    call.kind = "exec" /\ cmd.entry = "admin_command" /\ call.budget = PrivBudget

\* C11: the exec branch never hands execSandbox an empty source text: for
\* every command that reaches it (first argument 'exec', more than one
\* argument, so the body holds a word), the normalized text is non-empty.
C11_SourceNonEmpty ==
    (call.kind = "exec" /\ \E k \in 1..Len(call.body) :
                               call.body[k] \notin StripChars)
        => call.src # <<>>

\* ------------------------------------------------ claims on on_member_join

\* Six hours, in seconds.
SixHours == 6 * 60 * 60

JoinBounded ==
    /\ mj.polls <= MaxPolls
    /\ mj.slept = SleepSecs * mj.polls
    /\ mj.slept <= SixHours
    /\ mj.greeted <= 1
    /\ mj.greeted = 1 =>
           mj.pc = "done" /\ mj.polls >= 1 /\ ~mj.pending
    /\ (mj.test_mode \/ mj.bot) => mj.greeted = 0 /\ mj.polls = 0
    /\ (mj.pc = "done" /\ mj.pending /\ ~(mj.test_mode \/ mj.bot)) =>
           mj.greeted = 0 /\ mj.polls = MaxPolls

\* C12: on_member_join waits six hours at most: it reads member.pending at
\* most 10800 times, 2 seconds apart, sends the greeting at most once and
\* only after reading pending as false, and then returns; with pending never
\* clearing it ends after the last poll without a greeting; it never greets
\* under TEST_MODE or for a bot; and it always terminates.
C12_JoinWaitsSixHours == []JoinBounded /\ <>(mj.pc = "done")

\* The member passed the screening during the last sleep and was greeted by
\* the last poll.
C12_Witness ==
    mj.pc = "done" /\ mj.polls = MaxPolls /\ mj.greeted = 1

\* ------------------------------------------------------ claims on cmd_logs

\* C14: after on_message has handled a prefixed command message, cmd_logs
\* holds at most 100 entries and the handler has not raised.
C14_LogsWithinLimit ==
    om.kind \in {"logged", "evicted", "raised", "http_caught"} =>
        Len(logs) <= LogLimit /\ om.kind # "raised"

DeletedHere(e) == e.key = om.id \/ (om.bot /\ e.resp = om.id)

\* C15: after on_message_delete, cmd_logs has no entry keyed by the deleted
\* message's id and, when that message was the bot's and was not a key, no
\* entry whose response has that id; every other entry is as it was, in the
\* order it was.
C15_DeleteRemovesEntry ==
    om.kind = "deleted" =>
        /\ ~HasKey(logs, om.id)
        /\ (om.bot /\ ~HasKey(om.before, om.id)) =>
               \A i \in 1..Len(logs) : logs[i].resp # om.id
        /\ LET Others(e) == ~DeletedHere(e)
           IN  logs = SelectSeq(om.before, Others)

\* A response of the bot was deleted while its command was logged, among
\* other entries.
C15_Witness ==
    /\ om.kind = "deleted"
    /\ om.bot
    /\ \E i \in 1..Len(om.before) : om.before[i].resp = om.id
    /\ Len(logs) >= 1
    /\ Len(logs) < Len(om.before)

\* ------------------------------------------------- claims on code_block

EndsWith(s, t) ==
    Len(s) >= Len(t) /\ SubSeq(s, Len(s) - Len(t) + 1, Len(s)) = t

\* The room code_block leaves for the escaped string (utils.py 410).
CodeBlockRoom == CodeBlockMax - CodeBlockCost

CodeBlockShape ==
    /\ Len(rout.desc) <= CodeBlockMax
    /\ StartsWith(rout.desc, FenceOpen)
    /\ EndsWith(rout.desc, FenceClose)

\* C13 (as amended): code_block with the default max_characters returns at
\* most 2048 characters that start with the opening fence and end with the
\* closing fence; the result ends with " ..." and the closing fence whenever
\* the escaped string is longer than 2041 characters, and otherwise it is
\* the escaped string between the fences, so it ends that way only when the
\* escaped string itself ends with " ...".
C13_CodeBlockShape ==
    rout.kind = "code_block" =>
        /\ CodeBlockShape
        /\ Len(rout.escaped) > CodeBlockRoom
               => EndsWith(rout.desc, Dots \o FenceClose)
        /\ Len(rout.escaped) <= CodeBlockRoom
               => /\ rout.desc = FenceOpen \o rout.escaped \o FenceClose
                  /\ EndsWith(rout.desc, Dots \o FenceClose)
                         <=> EndsWith(rout.escaped, Dots)

\* A string one character over the room was cut and marked.
C13_Witness ==
    /\ rout.kind = "code_block"
    /\ Len(rout.escaped) = CodeBlockRoom + 1
    /\ Len(rout.desc) < Len(FenceOpen) + Len(rout.escaped) + Len(FenceClose)
    /\ EndsWith(rout.desc, Dots \o FenceClose)

\* C13 as stated: the result ends with " ..." and the closing fence exactly
\* when the escaped string is longer than 2041 characters.
C13_Original ==
    rout.kind = "code_block" =>
        /\ CodeBlockShape
        /\ EndsWith(rout.desc, Dots \o FenceClose)
               <=> Len(rout.escaped) > CodeBlockRoom

\* ---------------------------------------- claims on split_long_message

\* C10: every chunk split_long_message returns is at most 2000 characters
\* long.
C10_ChunksWithinLimit ==
    schunks # <<"pending">> =>
        \A c \in 1..Len(schunks) : Len(schunks[c]) <= SplitLimit

====
